---- MODULE Spec2Model ----
(***************************************************************************)
(* A model of src/bin.ts, the legacy-portal migration script.              *)
(*                                                                         *)
(* Text is modelled as a sequence of tokens.  A token is a short piece of  *)
(* text that the script's string operations never cut in two: a path       *)
(* separator "/", a file-name suffix ".mdx", a word "pets", a line break,  *)
(* the opening of an inline link "[x](", and so on.  Every string          *)
(* operation of the script (split, replace, startsWith, path.resolve,      *)
(* path.relative, the regular expressions) is modelled on these            *)
(* sequences by what it does.                                              *)
(***************************************************************************)
EXTENDS Integers, Sequences, FiniteSets, TLC

(***************************************************************************)
(* Generic string helpers (JavaScript String methods on token sequences).  *)
(***************************************************************************)

Min(a, b) == IF a < b THEN a ELSE b

\* s.slice(i - 1): the tokens of s from position i on.
From(s, i) == SubSeq(s, i, Len(s))

\* s.indexOf(tok), 1-based; 0 when tok does not occur.
IndexOf(s, tok) ==
  IF \E i \in 1..Len(s) : s[i] = tok
  THEN CHOOSE i \in 1..Len(s) : s[i] = tok /\ \A j \in 1..(i - 1) : s[j] # tok
  ELSE 0

\* s.lastIndexOf(tok), 1-based; 0 when tok does not occur.
LastIndexOf(s, tok) ==
  IF \E i \in 1..Len(s) : s[i] = tok
  THEN CHOOSE i \in 1..Len(s) : s[i] = tok /\ \A j \in (i + 1)..Len(s) : s[j] # tok
  ELSE 0

\* s.startsWith(p)
StartsWith(s, p) == Len(p) <= Len(s) /\ SubSeq(s, 1, Len(p)) = p

\* s.endsWith(p)
EndsWith(s, p) == Len(p) <= Len(s) /\ SubSeq(s, Len(s) - Len(p) + 1, Len(s)) = p

\* s.indexOf(p) for a pattern of several tokens, 1-based; 0 when absent.
IndexOfSub(s, p) ==
  LET hits == {i \in 1..(Len(s) - Len(p) + 1) : SubSeq(s, i, i + Len(p) - 1) = p}
  IN IF hits = {} THEN 0 ELSE CHOOSE i \in hits : \A j \in hits : i <= j

\* s.includes(p)
Includes(s, p) == IndexOfSub(s, p) # 0

\* s.replace(p, r) with a string pattern: the first occurrence only.
ReplaceFirst(s, p, r) ==
  LET i == IndexOfSub(s, p)
  IN IF i = 0 THEN s ELSE SubSeq(s, 1, i - 1) \o r \o From(s, i + Len(p))

\* s.replace(/p$/, r): the pattern at the end of the string only.
ReplaceSuffix(s, p, r) ==
  IF EndsWith(s, p) THEN SubSeq(s, 1, Len(s) - Len(p)) \o r ELSE s

\* s.split(sep): the pieces between the occurrences of the token sep.
RECURSIVE Split(_, _)
Split(s, sep) ==
  LET i == IndexOf(s, sep)
  IN IF i = 0 THEN <<s>> ELSE <<SubSeq(s, 1, i - 1)>> \o Split(From(s, i + 1), sep)

\* parts.join(sep)
RECURSIVE Join(_, _)
Join(parts, sep) ==
  IF parts = <<>> THEN <<>>
  ELSE IF Len(parts) = 1 THEN parts[1]
  ELSE parts[1] \o <<sep>> \o Join(Tail(parts), sep)

(***************************************************************************)
(* node:path (POSIX flavour), on token sequences.                          *)
(***************************************************************************)

\* process.cwd(): the root of the project being migrated.
Cwd == <<"/", "repo">>

IsAbsolute(p) == p # <<>> /\ p[1] = "/"

\* normalizeString of node:path: drops "" and ".", resolves "..".
RECURSIVE NormSegs(_, _, _)
NormSegs(segs, acc, allowAboveRoot) ==
  IF segs = <<>> THEN acc
  ELSE LET s == Head(segs)
           rest == Tail(segs)
       IN IF s = <<>> \/ s = <<".">> THEN NormSegs(rest, acc, allowAboveRoot)
          ELSE IF s = <<"..">>
          THEN IF acc # <<>> /\ acc[Len(acc)] # <<"..">>
               THEN NormSegs(rest, SubSeq(acc, 1, Len(acc) - 1), allowAboveRoot)
               ELSE IF allowAboveRoot
               THEN NormSegs(rest, Append(acc, s), allowAboveRoot)
               ELSE NormSegs(rest, acc, allowAboveRoot)
          ELSE NormSegs(rest, Append(acc, s), allowAboveRoot)

\* path.normalize(p)
PathNormalize(p) ==
  IF p = <<>> THEN <<".">>
  ELSE LET abs == IsAbsolute(p)
           trailing == p[Len(p)] = "/"
           body == Join(NormSegs(Split(p, "/"), <<>>, ~abs), "/")
           body2 == IF body = <<>> /\ ~abs THEN <<".">> ELSE body
           body3 == IF body2 # <<>> /\ trailing /\ body # <<>> THEN body2 \o <<"/">> ELSE body2
       IN IF abs THEN <<"/">> \o body3 ELSE body3

\* path.resolve(a, b): always absolute, never with a trailing separator.
PathResolve(a, b) ==
  LET full == IF IsAbsolute(b) THEN b
              ELSE IF IsAbsolute(a) THEN a \o <<"/">> \o b
              ELSE Cwd \o <<"/">> \o a \o <<"/">> \o b
  IN <<"/">> \o Join(NormSegs(Split(full, "/"), <<>>, FALSE), "/")

\* The segments of an absolute, resolved path.
AbsSegs(p) == NormSegs(Split(p, "/"), <<>>, FALSE)

\* The length of the longest common prefix of two segment lists.
CommonPrefix(x, y) ==
  LET ok == {n \in 0..Min(Len(x), Len(y)) : SubSeq(x, 1, n) = SubSeq(y, 1, n)}
  IN CHOOSE n \in ok : \A m \in ok : m <= n

\* The output of path.relative for two segment lists that share their first
\* c segments: one ".." for each further segment of f, then the rest of t.
RelativeSegs(f, t, c) ==
  Join([i \in 1..(Len(f) - c) |-> <<"..">>] \o SubSeq(t, c + 1, Len(t)), "/")

\* path.relative on the segments of the two resolved paths.
RelativeOf(f, t) == RelativeSegs(f, t, CommonPrefix(f, t))

\* path.relative(from, to)
PathRelative(from, to) ==
  RelativeOf(AbsSegs(PathResolve(<<>>, from)), AbsSegs(PathResolve(<<>>, to)))

\* p without the separators that end it (dirname and basename ignore them).
RECURSIVE StripTrailingSlash(_)
StripTrailingSlash(p) ==
  IF Len(p) > 1 /\ p[Len(p)] = "/" THEN StripTrailingSlash(SubSeq(p, 1, Len(p) - 1)) ELSE p

\* path.dirname(p)
PathDirname(p) ==
  IF p = <<>> THEN <<".">>
  ELSE LET q == StripTrailingSlash(p)
           j == LastIndexOf(q, "/")
       IN IF j = 0 THEN <<".">>
          ELSE IF j = 1 THEN <<"/">>
          ELSE SubSeq(q, 1, j - 1)

\* path.basename(p, ext)
PathBasename(p, ext) ==
  LET q == StripTrailingSlash(p)
      base == From(q, LastIndexOf(q, "/") + 1)
  IN IF ext # <<>> /\ EndsWith(base, ext) /\ base # ext
     THEN SubSeq(base, 1, Len(base) - Len(ext))
     ELSE base

\* path.join(...parts)
PathJoin(parts) ==
  LET nonEmpty == SelectSeq(parts, LAMBDA x : x # <<>>)
  IN IF nonEmpty = <<>> THEN <<".">> ELSE PathNormalize(Join(nonEmpty, "/"))

(***************************************************************************)
(* Character classes of the regular expressions, on tokens.                *)
(***************************************************************************)

\* Tokens made only of \w characters (letters, digits, underscore).
WordTokens ==
  {"js", "note", "attention", "info", "warning", "Title", "code", "more", "text",
   "sec", "top", "a", "b", "c", "d", "x", "pets", "Pets", "api", "ref", "tag",
   "docs", "index", "openapi", "v1", "v2", "v3", "undefined", "Guide", "Body",
   "operation", "listPets", "listpets", "partials", "intro"}

\* \w
IsWord(t) == t \in WordTokens

\* \s
IsSpace(t) == t \in {" ", "\n"}

\* The pieces of a token that mixes punctuation and word characters.
Chars(t) ==
  CASE t = ".md" -> <<".", "md">>
    [] t = ".mdx" -> <<".", "mdx">>
    [] t = ".yaml" -> <<".", "yaml">>
    [] t = ".page.yaml" -> <<".", "page", ".", "yaml">>
    [] t = ".page.tsx" -> <<".", "page", ".", "tsx">>
    [] OTHER -> <<t>>

\* [a-z0-9]+ on a piece
IsAlnum(t) == IsWord(t) \/ t \in {"md", "mdx", "yaml", "page", "tsx"}

\* String.prototype.toLowerCase on one token.
LowerToken(t) ==
  CASE t = "Pets" -> "pets"
    [] t = "Title" -> "title"
    [] t = "Guide" -> "guide"
    [] t = "Body" -> "body"
    [] t = "listPets" -> "listpets"
    [] OTHER -> t

\* str.toLowerCase()
ToLowerCase(s) == [i \in 1..Len(s) |-> LowerToken(s[i])]

(***************************************************************************)
(* slug and slugRoute (src/bin.ts 633-642).                                *)
(***************************************************************************)

\* The pieces of every token of s, in order.
RECURSIVE Pieces(_)
Pieces(s) == IF s = <<>> THEN <<>> ELSE Chars(Head(s)) \o Pieces(Tail(s))

\* .replace(/[^a-z0-9]+/g, '-'): every run of other pieces becomes one "-".
RECURSIVE Hyphenate(_, _)
Hyphenate(s, inRun) ==
  IF s = <<>> THEN <<>>
  ELSE IF IsAlnum(Head(s)) THEN <<Head(s)>> \o Hyphenate(Tail(s), FALSE)
  ELSE IF inRun THEN Hyphenate(Tail(s), TRUE)
  ELSE <<"-">> \o Hyphenate(Tail(s), TRUE)

\* .replace(/^-|-$/g, '')
TrimHyphens(s) ==
  LET a == IF s # <<>> /\ s[1] = "-" THEN Tail(s) ELSE s
  IN IF a # <<>> /\ a[Len(a)] = "-" THEN SubSeq(a, 1, Len(a) - 1) ELSE a

slug(str) == TrimHyphens(Hyphenate(Pieces(ToLowerCase(str)), FALSE))

slugRoute(str) ==
  LET segs == Split(str, "/")
  IN Join([i \in 1..Len(segs) |-> slug(segs[i])], "/")

(***************************************************************************)
(* The markup rewrites of migrateMarkdown (src/bin.ts 97-115).             *)
(* Each Match operator answers, for a position of the text, whether the    *)
(* regular expression matches there, where the match ends and what         *)
(* replaces it; each Replace operator is String.replace with the g flag.   *)
(***************************************************************************)

NoMatch == [ok |-> FALSE, last |-> 0, out |-> <<>>]

\* The first position >= from of tok in s; 0 when there is none.
IndexFrom(s, tok, from) ==
  LET hits == {i \in from..Len(s) : s[i] = tok}
  IN IF hits = {} THEN 0 ELSE CHOOSE i \in hits : \A j \in hits : i <= j

\* The replacement of one admonition, whose body starts after position nl.
AdmonitionOut(s, type, title, nl) ==
  LET close == IndexFrom(s, ":::", nl + 2)
      last == IF close = 0 THEN Len(s) ELSE close
      text == SubSeq(s, nl + 1, IF close = 0 THEN Len(s) ELSE close - 1)
      type2 == IF type = "attention" THEN "info" ELSE type
      text2 == IF text[Len(text)] = "\n" THEN text ELSE Append(text, "\n")
  IN [ok |-> TRUE, last |-> last,
      out |-> <<"{% admonition type=\"", type2, "\" name=\"">> \o title
              \o <<"\" %}", "\n">> \o text2 \o <<"{% /admonition %}">>]

\* /:::(\w+)(?: +(.+?)\n|\s*\n)([\s\S]+?)(:::|$)/ at position i.
MatchAdmonition(s, i) ==
  LET n == Len(s)
      p == i + 2
      nl == IndexFrom(s, "\n", p)
      \* " +(.+?)\n": spaces, then at least one more token before the line break
      titled == p <= n /\ s[p] = " " /\ nl >= p + 2 /\ nl < n
      spaces == {k \in p..(nl - 2) : \A j \in p..k : s[j] = " "}
      spEnd == CHOOSE k \in spaces : \A j \in spaces : j <= k
      \* "\s*\n": the longest run of white space that ends in a line break
      breaks == {k \in p..(n - 1) : s[k] = "\n" /\ \A j \in p..k : IsSpace(s[j])}
      brEnd == CHOOSE k \in breaks : \A j \in breaks : j <= k
  IN IF ~(i + 1 <= n /\ s[i] = ":::" /\ IsWord(s[i + 1])) THEN NoMatch
     ELSE IF titled THEN AdmonitionOut(s, s[i + 1], SubSeq(s, spEnd + 1, nl - 1), nl)
     ELSE IF breaks # {} THEN AdmonitionOut(s, s[i + 1], <<"undefined">>, brEnd)
     ELSE NoMatch

\* content.replace(admonitionRegex, ...)
RECURSIVE ReplaceAdmonitions(_)
ReplaceAdmonitions(s) ==
  LET hits == {i \in 1..Len(s) : MatchAdmonition(s, i).ok}
      i == CHOOSE k \in hits : \A j \in hits : k <= j
      m == MatchAdmonition(s, i)
  IN IF hits = {} THEN s
     ELSE SubSeq(s, 1, i - 1) \o m.out \o ReplaceAdmonitions(From(s, m.last + 1))

EmbedOpen == "<embed src=\""

EmbedClose == "\" />"

\* /<embed\s+src="(.*?)"\s+\/>/ at position i: the src is m.out.
MatchEmbed(s, i) ==
  LET close == IndexFrom(s, EmbedClose, i + 1)
      src == SubSeq(s, i + 1, close - 1)
  IN IF i <= Len(s) /\ s[i] = EmbedOpen /\ close # 0
        /\ \A j \in 1..Len(src) : src[j] # "\n"
     THEN [ok |-> TRUE, last |-> close, out |-> src]
     ELSE NoMatch

\* The src of every embed of s, in order.
RECURSIVE EmbedSrcs(_)
EmbedSrcs(s) ==
  LET hits == {i \in 1..Len(s) : MatchEmbed(s, i).ok}
      i == CHOOSE k \in hits : \A j \in hits : k <= j
      m == MatchEmbed(s, i)
  IN IF hits = {} THEN <<>> ELSE <<m.out>> \o EmbedSrcs(From(s, m.last + 1))

\* newContent.replace(embedRegex, ...): the text it returns.
RECURSIVE ReplaceEmbeds(_)
ReplaceEmbeds(s) ==
  LET hits == {i \in 1..Len(s) : MatchEmbed(s, i).ok}
      i == CHOOSE k \in hits : \A j \in hits : k <= j
      m == MatchEmbed(s, i)
  IN IF hits = {} THEN s
     ELSE SubSeq(s, 1, i - 1) \o <<"{% partial file=\"">> \o m.out \o <<"\" /%}">>
          \o ReplaceEmbeds(From(s, m.last + 1))

\* The folder the embed rewrite adds to partialFolders for one src.
PartialFolder(src, filePath) ==
  IF StartsWith(src, <<"/">>)
  THEN PathDirname(From(src, 2))
  ELSE PathDirname(PathResolve(PathDirname(filePath), src))

\* The token for the three backquotes that open and close a code fence.
Fence == "<fence>"

\* The titled-code-fence expression of line 115 at position i.
MatchFence(s, i) ==
  LET n == Len(s)
      hasLang == i + 1 <= n /\ IsWord(s[i + 1])
      p == IF hasLang THEN i + 2 ELSE i + 1
      \* (e, t, q): white space p..e, title e+1..t, line break t+1, body, fence q
      cands == {c \in (p..n) \X (p..n) \X (p..n) :
                  /\ \A j \in p..c[1] : IsSpace(s[j])
                  /\ c[2] > c[1]
                  /\ \A j \in (c[1] + 1)..c[2] : s[j] # "\n"
                  /\ c[2] + 1 <= n /\ s[c[2] + 1] = "\n"
                  /\ c[3] >= c[2] + 3
                  /\ s[c[3]] = Fence}
      \* greedy \s+, then greedy (.+), then lazy body
      best == CHOOSE c \in cands : \A o \in cands :
                \/ c[1] > o[1]
                \/ c[1] = o[1] /\ c[2] > o[2]
                \/ c[1] = o[1] /\ c[2] = o[2] /\ c[3] <= o[3]
      lang == IF hasLang THEN <<s[i + 1]>> ELSE <<>>
  IN IF ~(i <= n /\ s[i] = Fence) \/ cands = {} THEN NoMatch
     ELSE [ok |-> TRUE, last |-> best[3],
           out |-> <<Fence>> \o lang \o <<" ", "{% title=\"">>
                   \o SubSeq(s, best[1] + 1, best[2]) \o <<"\" %}", "\n">>
                   \o SubSeq(s, best[2] + 2, best[3] - 1) \o <<Fence>>]

\* newContent.replace(<the fence expression>, <fence $1 {% title="$2" %}\n$3 fence>)
RECURSIVE ReplaceFences(_)
ReplaceFences(s) ==
  LET hits == {i \in 1..Len(s) : MatchFence(s, i).ok}
      i == CHOOSE k \in hits : \A j \in hits : k <= j
      m == MatchFence(s, i)
  IN IF hits = {} THEN s
     ELSE SubSeq(s, 1, i - 1) \o m.out \o ReplaceFences(From(s, m.last + 1))

(***************************************************************************)
(* Frontmatter (src/bin.ts 705-730).  A document is a record               *)
(* [kind, fm, body]: fm is the leading block between the "---" lines,      *)
(* parsed (present = the block exists, map = its keys and values), and     *)
(* body is the text after it.  Every value of the map is a sequence: a     *)
(* string, or a list of strings.                                           *)
(***************************************************************************)

\* No frontmatter block: processFrontMatter's frontmatter: null.
NoFrontmatter == [present |-> FALSE, map |-> <<>>]

Frontmatter(map) == [present |-> TRUE, map |-> map]

\* delete obj[key]
Without(map, key) == [k \in DOMAIN map \ {key} |-> map[k]]

\* A string or list value that JavaScript takes for true in a condition;
\* a list is always true, an empty string is not.
Truthy(map, key) == key \in DOMAIN map /\ (key = "redirectFrom" \/ map[key] # <<>>)

\* redirectFrom.reduce(...) (lines 718-721): an object with one key for each
\* string of the list, each holding an empty object.
Redirects(list) == [str \in {list[i] : i \in 1..Len(list)} |-> <<>>]

\* processFrontMatter without the delete of line 714: the permission is
\* recorded and the key stays in the mapping.
processFrontMatterKeepingKey(fm, filePath) ==
  IF ~fm.present
  THEN [frontmatter |-> NoFrontmatter, changed |-> FALSE, perm |-> <<>>, excluded |-> FALSE]
  ELSE [frontmatter |-> fm,
        changed |-> Truthy(fm.map, "permission"),
        perm |-> IF Truthy(fm.map, "permission") THEN fm.map["permission"] ELSE <<>>,
        excluded |-> Truthy(fm.map, "exclude")]

\* processFrontMatter(content, filePath): the rewritten mapping, the changed
\* flag, and what it records into fileRbacPermissions (perm, <<>> for
\* nothing) and into ignore (excluded).
processFrontMatter(fm, filePath) ==
  IF ~fm.present
  THEN [frontmatter |-> NoFrontmatter, changed |-> FALSE, perm |-> <<>>, excluded |-> FALSE]
  ELSE LET m0 == fm.map
           hasPerm == Truthy(m0, "permission")
           m1 == IF hasPerm THEN Without(m0, "permission") ELSE m0
           hasRedirect == Truthy(m1, "redirectFrom")
           m2 == IF hasRedirect
                 THEN ("redirects" :> Redirects(m1["redirectFrom"]))
                      @@ Without(m1, "redirectFrom")
                 ELSE m1
       IN [frontmatter |-> Frontmatter(m2),
           changed |-> hasPerm \/ hasRedirect,
           perm |-> IF hasPerm THEN m0["permission"] ELSE <<>>,
           excluded |-> Truthy(m2, "exclude")]

\* Object.keys(frontmatter || {}).length === 0
IsEmptyMapping(fm) == ~fm.present \/ DOMAIN fm.map = {}

(***************************************************************************)
(* The link rewriter of migrateMarkdown (src/bin.ts 128-157).              *)
(***************************************************************************)

\* The opening of an inline link, "[text](", and its closing parenthesis.
LinkOpen == "[x]("

LinkClose == ")"

\* The normalized, root-relative path of a link's file part.
RelativeLink(fileLink, filePath) ==
  PathRelative(<<".">>,
               IF StartsWith(fileLink, <<"/">>)
               THEN From(fileLink, 2)
               ELSE PathResolve(PathDirname(filePath), fileLink))

\* The isRefLink test of lines 141-150.
IsRefLink(link, reg) ==
  /\ \E f \in DOMAIN reg :
       /\ EndsWith(f, <<".page.yaml">>)
       /\ StartsWith(link, <<"/">> \o slugRoute(ReplaceFirst(f, <<".page.yaml">>, <<>>)) \o <<"/">>)
  /\ Includes(link, <<"/", "tag", "/">>)

\* The callback of lines 128-157 on one link destination.
RewriteLink(link, filePath, reg) ==
  LET parts == Split(link, "#")
      fileLink == parts[1]
      \* const [fileLink, hash] = link.split('#'): the second piece only
      hashSuffix == IF Len(parts) >= 2 /\ parts[2] # <<>> THEN <<"#">> \o parts[2] ELSE <<>>
      relativeLink == RelativeLink(fileLink, filePath)
  IN IF relativeLink \in DOMAIN reg
     THEN PathRelative(PathDirname(filePath), reg[relativeLink]) \o hashSuffix
     ELSE IF IsRefLink(link, reg)
     THEN ToLowerCase(ReplaceFirst(link, <<"/", "tag", "/">>, <<"/">>))
     ELSE link

\* /(\[[^\]]+\]\()([^)]+)(\))/ at position i: the destination is m.out.
MatchLink(s, i) ==
  LET close == IndexFrom(s, LinkClose, i + 1)
  IN IF i <= Len(s) /\ s[i] = LinkOpen /\ close >= i + 2
     THEN [ok |-> TRUE, last |-> close, out |-> SubSeq(s, i + 1, close - 1)]
     ELSE NoMatch

\* The destination of every inline link of s, in order.
RECURSIVE LinkDests(_)
LinkDests(s) ==
  LET hits == {i \in 1..Len(s) : MatchLink(s, i).ok}
      i == CHOOSE k \in hits : \A j \in hits : k <= j
      m == MatchLink(s, i)
  IN IF hits = {} THEN <<>> ELSE <<m.out>> \o LinkDests(From(s, m.last + 1))

\* newContent.replace(<the link expression>, ...)
RECURSIVE ReplaceLinks(_, _, _)
ReplaceLinks(s, filePath, reg) ==
  LET hits == {i \in 1..Len(s) : MatchLink(s, i).ok}
      i == CHOOSE k \in hits : \A j \in hits : k <= j
      m == MatchLink(s, i)
  IN IF hits = {} THEN s
     ELSE SubSeq(s, 1, i - 1) \o <<LinkOpen>> \o RewriteLink(m.out, filePath, reg)
          \o <<LinkClose>> \o ReplaceLinks(From(s, m.last + 1), filePath, reg)

\* The text migrateMarkdown computes for one file (lines 95-157).  The
\* three markup expressions and the link expression are applied to the
\* body: a frontmatter block holds none of their constructs.
MarkdownRewrite(doc, filePath, reg) ==
  LET b3 == ReplaceFences(ReplaceEmbeds(ReplaceAdmonitions(doc.body)))
      r == processFrontMatter(doc.fm, filePath)
      fm2 == IF ~r.changed THEN doc.fm
             ELSE IF IsEmptyMapping(r.frontmatter) THEN NoFrontmatter
             ELSE r.frontmatter
  IN [kind |-> "md", fm |-> fm2, body |-> ReplaceLinks(b3, filePath, reg)]

\* What the embed rewrite of one file adds to partialFolders (lines 106-113).
EmbedFolders(doc, filePath) ==
  LET srcs == EmbedSrcs(ReplaceAdmonitions(doc.body))
  IN {PartialFolder(srcs[i], filePath) : i \in 1..Len(srcs)}

(***************************************************************************)
(* Navigation trees (src/bin.ts 172-250).  A node is a record with one     *)
(* field per key the script reads or writes; a field is absent, present    *)
(* with the value undefined, or set.  The string fields hold token         *)
(* sequences, pages and items hold sequences of nodes.                     *)
(***************************************************************************)

Absent == [st |-> "absent", v |-> <<>>]

Undefined == [st |-> "undef", v |-> <<>>]

Value(x) == [st |-> "set", v |-> x]

NodeFields == {"label", "group", "page", "directory", "pages", "items"}

TreeFields == {"pages", "items"}

\* A node with the given fields set and every other field absent.
Node(fields) == [k \in NodeFields |-> IF k \in DOMAIN fields THEN Value(fields[k]) ELSE Absent]

\* item.label || item.group, as the value of a key of an object literal.
LabelOrGroup(item) ==
  IF item["label"].st = "set" /\ item["label"].v # <<>> THEN item["label"]
  ELSE IF item["group"].st = "absent" THEN Undefined
  ELSE item["group"]

\* path.relative('.', path.resolve(path.dirname(filePath), page))
SidebarTarget(page, filePath) ==
  PathRelative(<<".">>, PathResolve(PathDirname(filePath), page))

\* transformSidebarItems(items, filePath): threw tells that it raised
\* "No renamed file found", and items is what it returned otherwise.
RECURSIVE transformSidebarItems(_, _, _)

\* The entry of the registry for a key, "" for a key it does not hold.
Renamed(reg, key) == IF key \in DOMAIN reg THEN reg[key] ELSE <<>>

\* One callback of items.map (lines 197-249).  sub is what the call of line
\* 201 on item.pages gives; pageYamlFile (207-210, 225) and relativeLink
\* (238) are the root-relative paths the item's page is looked up by,
\* newPage and newLink the entries found for them, made relative to the
\* folder of the sidebars file (213, 232, 242).
TransformAt(item, reg, sub, pageYamlFile, relativeLink, newPage, newLink) ==
  LET page == item["page"]
      isStr == page.st = "set"
  IN IF item["pages"].st = "set"
     THEN [threw |-> sub.threw,
           node |-> [item EXCEPT !["pages"] = Undefined, !["items"] = Value(sub.items)]]
     ELSE IF isStr /\ EndsWith(page.v, <<"/", "*">>)
     THEN IF EndsWith(page.v, <<".page.yaml", "/", "*">>)
          THEN IF pageYamlFile \notin DOMAIN reg
               THEN [threw |-> TRUE, node |-> item]
               ELSE [threw |-> FALSE, node |-> [item EXCEPT !["page"] = Value(newPage)]]
          ELSE [threw |-> FALSE,
                node |-> [item EXCEPT !["page"] = Undefined,
                                      !["directory"] = Value(SubSeq(page.v, 1, Len(page.v) - 2))]]
     ELSE IF isStr /\ EndsWith(page.v, <<".page.yaml">>)
     THEN IF pageYamlFile \notin DOMAIN reg
          THEN [threw |-> TRUE, node |-> item]
          ELSE [threw |-> FALSE,
                node |-> [item EXCEPT !["group"] = LabelOrGroup(item),
                                      !["page"] = Value(newPage)]]
     ELSE IF isStr /\ page.v # <<>> /\ relativeLink \in DOMAIN reg
     THEN [threw |-> FALSE, node |-> [item EXCEPT !["page"] = Value(newLink)]]
     ELSE [threw |-> FALSE, node |-> item]

TransformLookup(item, reg, sub, dir, pageYamlFile, relativeLink) ==
  TransformAt(item, reg, sub, pageYamlFile, relativeLink,
              PathRelative(dir, Renamed(reg, pageYamlFile)),
              PathRelative(dir, Renamed(reg, relativeLink)))

TransformItem(item, filePath, reg, sub) ==
  TransformLookup(item, reg, sub, PathDirname(filePath),
                  SidebarTarget(ReplaceFirst(item["page"].v, <<"/", "*">>, <<>>), filePath),
                  SidebarTarget(item["page"].v, filePath))

\* What items.map returns, or that one of its callbacks raised.
Mapped(each) ==
  [threw |-> \E i \in DOMAIN each : each[i].threw,
   items |-> [i \in DOMAIN each |-> each[i].node]]

transformSidebarItems(items, filePath, reg) ==
  Mapped([i \in 1..Len(items) |->
            TransformItem(items[i], filePath, reg,
                          transformSidebarItems(IF items[i]["pages"].st = "set"
                                                THEN items[i]["pages"].v ELSE <<>>,
                                                filePath, reg))])

\* dequal(foo, bar) on two trees (lines 673-703): the same length, and node
\* by node the same keys with equal values; a key that is present with the
\* value undefined is not an absent key.
RECURSIVE dequal(_, _)
dequal(foo, bar) ==
  /\ Len(foo) = Len(bar)
  /\ \A i \in 1..Len(foo) : \A k \in NodeFields :
       /\ foo[i][k].st = bar[i][k].st
       /\ IF k \in TreeFields /\ foo[i][k].st = "set"
          THEN dequal(foo[i][k].v, bar[i][k].v)
          ELSE foo[i][k].v = bar[i][k].v

\* yaml.dump(newData) read back: a key whose value is undefined is not written.
RECURSIVE Dump(_)
Dump(items) ==
  [i \in 1..Len(items) |->
     [k \in NodeFields |->
        IF items[i][k].st = "undef" THEN Absent
        ELSE IF k \in TreeFields /\ items[i][k].st = "set" THEN Value(Dump(items[i][k].v))
        ELSE items[i][k]]]

(***************************************************************************)
(* The project tree the script runs on.  A path of a listing has the form  *)
(* getFsInfo gives it, "./dir/name"; the disk is keyed by the normalized   *)
(* root-relative path.                                                     *)
(***************************************************************************)

ApiPage == <<".", "/", "api", ".page.yaml">>

PetsPage == <<".", "/", "ref", "/", "pets", ".page.yaml">>

GuideMdx == <<".", "/", "c", ".mdx">>

GuideMd == <<".", "/", "c", ".md">>

DocMd == <<".", "/", "a", "/", "b", ".md">>

DocSidebars == <<".", "/", "a", "/", "sidebars", ".yaml">>

RootSidebars == <<".", "/", "sidebars", ".yaml">>

SiteConfig == <<"siteConfig", ".yaml">>

LocalDefinition == <<"openapi", "/", "pets", ".yaml">>

RemoteDefinition ==
  <<"https://", "api", "/", "registry", "/", "bundle", "/", "docs", "/", "pets", "/", "v1",
    "/", "openapi", ".yaml">>

\* siteConfig.oasDefinitions (line 321): definition identifier -> location.
oasDefinitions == [local |-> LocalDefinition, remote |-> RemoteDefinition]

\* The key of a path on the disk.
Key(p) == PathRelative(<<".">>, p)

\* The order in which readdirDeep (lines 647-660) meets the files that the
\* listings of the script can hold: directory entries by name.
ScanOrder == <<DocMd, DocSidebars, ApiPage, GuideMd, GuideMdx, PetsPage, RootSidebars>>

\* getFsInfo('.') (lines 644-669): the files of the tree, as listed.
getFsInfo(d) == SelectSeq(ScanOrder, LAMBDA f : Key(f) \in DOMAIN d)

\* fsInfo.list(pattern) for a pattern that tests how the name ends.
List(files, suffix) == SelectSeq(files, LAMBDA f : EndsWith(f, suffix))

\* fs.writeFileSync(path, content)
WriteFile(d, path, content) == (Key(path) :> content) @@ d

\* fs.unlinkSync(path)
Unlink(d, path) == [k \in DOMAIN d \ {Key(path)} |-> d[k]]

(***************************************************************************)
(* The inputs: what the files of the tree may hold.                        *)
(***************************************************************************)

\* The most versions a .page.yaml file declares.
MaxVersions == 2

VersionIds == <<"v1", "v2", "v3", "v4">>

PageYaml(definitionId, versions) ==
  [kind |-> "pageyaml", definitionId |-> definitionId, versions |-> versions,
   permission |-> <<>>]

\* The versions lists of n versions; a version names the remote definition
\* or has no definitionId.
VersionLists(n) ==
  {[i \in 1..n |-> [id |-> VersionIds[i], definitionId |-> ids[i], permission |-> <<>>]] :
     ids \in [1..n -> {"", "remote"}]}

PetsPageInputs ==
  {PageYaml(id, <<>>) : id \in {"", "local", "remote", "ghost"}}
  \cup {PageYaml("", v) : v \in UNION {VersionLists(n) : n \in 2..MaxVersions}}

ApiPageInputs == {PageYaml(id, <<>>) : id \in {"local", "remote"}}

Doc(kind, fm, body) == [kind |-> kind, fm |-> fm, body |-> body]

PermissionOnly == Frontmatter([permission |-> <<"admin">>])

MdxInputs ==
  {Doc("mdx", fm, body) :
     fm \in {NoFrontmatter, PermissionOnly},
     body \in {<<"#", " ", "Guide", "\n", "text", "\n">>, <<"<Jumbotron />", "\n">>}}

PlainBody == <<"text", "\n">>

MarkdownBodies ==
  { PlainBody,
    <<"text", LinkOpen, "..", "/", "c", ".mdx", "#", "sec", LinkClose, "\n">>,
    <<"text", LinkOpen, "..", "/", "c", ".mdx", "#", "sec", "#", "top", LinkClose, "\n">>,
    <<LinkOpen, "/", "ref", "/", "pets", ".page.yaml", LinkClose, " ",
      LinkOpen, "/", "ref", "/", "pets", "/", "tag", "/", "Pets", "/", "operation", "/",
      "listPets", LinkClose, "\n">>,
    <<Fence, "js", " ", "Title", "\n", "code", "\n", Fence, "\n">>,
    <<Fence, "js", "\n", "code", "\n", "more", "\n", Fence, "\n">>,
    <<":::", "attention", " ", "Title", "\n", "Body", "\n", ":::", "\n">>,
    <<EmbedOpen, "..", "/", "partials", "/", "intro", ".md", EmbedClose, "\n",
      EmbedOpen, "/", "partials", "/", "intro", ".md", EmbedClose, "\n">> }

MarkdownFrontmatters ==
  { PermissionOnly,
    Frontmatter([permission |-> <<"admin">>, title |-> <<"Guide">>]),
    Frontmatter([redirectFrom |-> << <<"/", "intro">> >>]),
    Frontmatter([exclude |-> <<"true">>]) }

MarkdownInputs ==
  {Doc("md", NoFrontmatter, body) : body \in MarkdownBodies}
  \cup {Doc("md", fm, PlainBody) : fm \in MarkdownFrontmatters}

Sidebars(shape, entries) == [kind |-> "sidebars", shape |-> shape, entries |-> entries]

Tree(items) == Sidebars("array", << [key |-> <<>>, items |-> items] >>)

GuidePage == Node([page |-> <<"c", ".mdx">>])

DocPage == Node([page |-> <<"a", "/", "b", ".md">>])

PetsRef == <<"ref", "/", "pets", ".page.yaml">>

RootSidebarsInputs ==
  { Tree(<<DocPage>>),
    Tree(<<Node([group |-> <<"Guide">>,
                 pages |-> <<GuidePage, Node([page |-> <<"docs", "/", "*">>])>>])>>),
    Tree(<<Node([group |-> <<"Guide">>, page |-> <<"c", ".mdx">>, pages |-> <<DocPage>>])>>),
    Tree(<<Node([label |-> <<"Pets">>, page |-> PetsRef])>>),
    Tree(<<Node([page |-> PetsRef \o <<"/", "*">>])>>),
    Tree(<<Node([group |-> <<"Pets">>, page |-> PetsRef, pages |-> <<DocPage>>])>>),
    Sidebars("mapping", << [key |-> <<"docs">>, items |-> <<DocPage>>],
                            [key |-> <<"Pets", " ", "api">>, items |-> <<DocPage>>] >>),
    Sidebars("mapping", << [key |-> <<"docs">>,
                             items |-> <<Node([group |-> <<"Guide">>, pages |-> <<GuidePage>>])>>],
                            [key |-> <<"Pets", " ", "api">>,
                             items |-> <<Node([page |-> PetsRef])>>] >>),
    Sidebars("mapping", << [key |-> <<"docs">>,
                             items |-> <<Node([group |-> <<"Guide">>, pages |-> <<GuidePage>>])>>],
                            [key |-> <<"Pets", " ", "api">>, items |-> <<DocPage>>] >>),
    Sidebars("scalar", <<>>) }

DocSidebarsInputs ==
  { Tree(<<Node([group |-> <<"Guide">>, pages |-> <<Node([page |-> <<"b", ".md">>])>>])>>),
    Sidebars("scalar", <<>>) }

\* The files every tree holds.
BaseDisk ==
  (SiteConfig :> [kind |-> "siteconfig"]) @@ (LocalDefinition :> [kind |-> "oas", text |-> "local"])

\* The choice of leaving a file out of the tree.
NoFile == [kind |-> "none"]

\* The tree with file f holding content c; NoFile leaves the file out.
With(d, f, c) == IF c.kind = "none" THEN d ELSE WriteFile(d, f, c)

\* Every combination of the files the relocating passes work on.
ProducerDisks ==
  {With(With(With(BaseDisk, ApiPage, a), PetsPage, p), GuideMdx, m) :
     a \in ApiPageInputs \cup {NoFile},
     p \in PetsPageInputs \cup {NoFile},
     m \in MdxInputs \cup {NoFile}}

\* The combinations with one .page.yaml file of one version at most.
PlainProducerDisks ==
  {d \in ProducerDisks :
     /\ Key(ApiPage) \notin DOMAIN d
     /\ Key(PetsPage) \in DOMAIN d => d[Key(PetsPage)].versions = <<>>
     /\ Key(GuideMdx) \in DOMAIN d => d[Key(GuideMdx)].fm.present}

\* The document and the navigation tree that go with every combination of
\* ProducerDisks.
DefaultDoc ==
  Doc("md", NoFrontmatter, <<"text", LinkOpen, "..", "/", "c", ".mdx", "#", "sec", LinkClose, "\n">>)

DefaultSidebars ==
  Tree(<<Node([group |-> <<"Guide">>, pages |-> <<GuidePage>>])>>)

\* The trees the script may be started on: every combination of the files
\* of the relocating passes with one document and one navigation tree, and
\* every document and every choice of navigation trees with the plain
\* combinations.
InitialDisks ==
  {With(With(d, DocMd, DefaultDoc), RootSidebars, DefaultSidebars) : d \in ProducerDisks}
  \cup {With(d, DocMd, c) : d \in PlainProducerDisks, c \in MarkdownInputs}
  \cup {With(With(d, RootSidebars, r), DocSidebars, t) :
          d \in PlainProducerDisks, r \in RootSidebarsInputs,
          t \in DocSidebarsInputs \cup {NoFile}}

(***************************************************************************)
(* The state of one run of migrate().                                      *)
(***************************************************************************)

VARIABLES
  pc,                   \* the phase migrate() is in, "done", or "crashed"
  pass,                 \* 1; 2 once the consuming passes are run again
  disk,                 \* the files of the tree
  disk0,                \* the files the run started on
  fsInfo,               \* the listing getFsInfo returned last
  queue,                \* the files the loop of the current phase has left
  curFile,              \* the .page.yaml file migrateOpenAPI is at
  jobs,                 \* its migratePageYaml calls still to make
  renamedFiles,         \* the rename registry (line 16)
  regWrites,            \* how often each registry key was assigned
  consumers,            \* the consuming passes that have read the registry
  token,                \* the credential slot (line 732)
  prompts,              \* how often the credential was asked for
  requests,             \* how many network requests were sent
  lastCall,             \* how the last tryFetchRemoteDefinition call ended
  fileRbacPermissions,  \* line 11
  partialFolders,       \* line 12
  ignore,               \* line 14
  apis,                 \* line 13: the identifiers recorded
  migrationInstructions,\* line 22: the sections appended
  done,                 \* the files the loops have handled, per pass
  written               \* the files the consuming passes wrote, per pass

vars ==
  <<pc, pass, disk, disk0, fsInfo, queue, curFile, jobs, renamedFiles, regWrites,
    consumers, token, prompts, requests, lastCall, fileRbacPermissions, partialFolders,
    ignore, apis, migrationInstructions, done, written>>

\* An empty Record<string, string>.
EmptyMap == <<>>

\* The order of migrate() with migrateMdx called after migrateMarkdown.
PhasesSwapped ==
  <<"openapi", "rescan", "markdown", "mdx", "sidebars", "config", "overrides", "theme",
    "npm", "report", "done">>

\* The phases of migrate() in the order of lines 59-75.
Phases ==
  <<"openapi", "mdx", "rescan", "markdown", "sidebars", "config", "overrides", "theme",
    "npm", "report", "done">>

\* The phase that follows phase p.
PhaseAfter(p) == Phases[IndexOf(Phases, p) + 1]

\* The files the loop of phase p runs over (lines 89, 167, 317, 554).
PhaseList(p, files) ==
  CASE p = "openapi" -> List(files, <<".page.yaml">>)
    [] p = "mdx" -> List(files, <<".mdx">>)
    [] p = "markdown" -> List(files, <<".md">>)
    [] p = "sidebars" -> List(files, <<"sidebars", ".yaml">>)
    [] OTHER -> <<>>

Init ==
  /\ disk0 \in InitialDisks
  /\ disk = disk0
  /\ fsInfo = getFsInfo(disk0)
  /\ pc = "openapi"
  /\ pass = 1
  /\ queue = PhaseList("openapi", fsInfo)
  /\ curFile = <<>>
  /\ jobs = <<>>
  /\ renamedFiles = EmptyMap
  /\ regWrites = EmptyMap
  /\ consumers = {}
  /\ token = "null"
  /\ prompts = 0
  /\ requests = 0
  /\ lastCall = "none"
  /\ fileRbacPermissions = EmptyMap
  /\ partialFolders = {}
  /\ ignore = << <<"_", "*">> >>
  /\ apis = {}
  /\ migrationInstructions = {}
  /\ done = {}
  /\ written = {}

(***************************************************************************)
(* migrateOpenAPI (lines 315-428).                                         *)
(***************************************************************************)

Job(definitionId, permission, targetPath, versioned) ==
  [definitionId |-> definitionId, permission |-> permission, targetPath |-> targetPath,
   versioned |-> versioned]

\* pageYaml.versions && pageYaml.versions.length > 1 (line 328)
IsVersioned(pageYaml) == Len(pageYaml.versions) > 1

\* pageYaml.definitionId || pageYaml.versions?.[0]?.definitionId (line 345)
SingleDefinitionId(pageYaml) ==
  IF pageYaml.definitionId # "" THEN pageYaml.definitionId
  ELSE IF Len(pageYaml.versions) >= 1 THEN pageYaml.versions[1].definitionId
  ELSE ""

\* The migratePageYaml calls one file leads to (lines 328-353); a version
\* or a file without a definitionId is skipped.
JobsOf(pageYaml, filePath) ==
  IF IsVersioned(pageYaml)
  THEN LET v == pageYaml.versions
           all == [i \in 1..Len(v) |->
                     Job(v[i].definitionId, v[i].permission,
                         PathJoin(<<PathDirname(filePath),
                                    PathBasename(filePath, <<".page.yaml">>),
                                    <<"@", v[i].id>>,
                                    <<"index", ".yaml">>>>),
                         TRUE)]
       IN SelectSeq(all, LAMBDA j : j.definitionId # "")
  ELSE IF SingleDefinitionId(pageYaml) = "" THEN <<>>
  ELSE <<Job(SingleDefinitionId(pageYaml), pageYaml.permission,
             ReplaceFirst(filePath, <<".page.yaml">>, <<".yaml">>), FALSE)>>

\* Lines 325-327 and the tests of 328-349: the loop takes the next file,
\* reads it and removes it.
OpenPageYaml ==
  /\ pc = "openapi" /\ jobs = <<>> /\ queue # <<>>
  /\ LET filePath == Head(queue)
     IN /\ curFile' = filePath
        /\ jobs' = JobsOf(disk[Key(filePath)], filePath)
        /\ disk' = Unlink(disk, filePath)
        /\ done' = done \cup {<<pass, filePath>>}
  /\ queue' = Tail(queue)
  /\ UNCHANGED <<pc, pass, disk0, fsInfo, renamedFiles, regWrites, consumers, token, prompts,
                 requests, lastCall, fileRbacPermissions, partialFolders, ignore, apis,
                 migrationInstructions, written>>

\* if (renamed) renamedFiles[path.normalize(filePath)] = renamed (342, 352)
Record(reg, filePath, renamed) == (PathNormalize(filePath) :> renamed) @@ reg

\* The count of assignments to the key of filePath, one more.
Counted(w, filePath) ==
  LET k == PathNormalize(filePath)
  IN (k :> (IF k \in DOMAIN w THEN w[k] + 1 ELSE 1)) @@ w

\* fileRbacPermissions[path.relative('.', p)] = permission, when there is one.
WithPermission(rbac, p, permission) ==
  IF permission # <<>> THEN (PathRelative(<<".">>, p) :> permission) @@ rbac ELSE rbac

\* migratePageYaml for an identifier oasDefinitions does not hold (357-361).
MigrateUnknown ==
  /\ pc = "openapi" /\ jobs # <<>>
  /\ Head(jobs).definitionId \notin DOMAIN oasDefinitions
  /\ jobs' = Tail(jobs)
  /\ UNCHANGED <<pc, pass, disk, disk0, fsInfo, queue, curFile, renamedFiles, regWrites,
                 consumers, token, prompts, requests, lastCall, fileRbacPermissions,
                 partialFolders, ignore, apis, migrationInstructions, done, written>>

\* migratePageYaml for a definition in the tree (402-415): renameSync
\* raises when the definition file is not there.
MigrateLocal ==
  /\ pc = "openapi" /\ jobs # <<>>
  /\ Head(jobs).definitionId \in DOMAIN oasDefinitions
  /\ LET j == Head(jobs)
         definitionPath == oasDefinitions[j.definitionId]
     IN /\ ~Includes(definitionPath, <<"https://">>)
        /\ IF Key(definitionPath) \in DOMAIN disk
           THEN /\ disk' = WriteFile(Unlink(disk, definitionPath), j.targetPath,
                                     disk[Key(definitionPath)])
                /\ fileRbacPermissions' =
                     WithPermission(fileRbacPermissions, j.targetPath, j.permission)
                /\ renamedFiles' = Record(renamedFiles, curFile, j.targetPath)
                /\ regWrites' = Counted(regWrites, curFile)
                /\ jobs' = Tail(jobs)
                /\ pc' = pc
           ELSE /\ pc' = "crashed"
                /\ UNCHANGED <<disk, fileRbacPermissions, renamedFiles, regWrites, jobs>>
  /\ UNCHANGED <<pass, disk0, fsInfo, queue, curFile, consumers, token, prompts, requests,
                 lastCall, partialFolders, ignore, apis, migrationInstructions, done, written>>

\* What the person at the terminal may answer to the credential prompt.
Answers == {"", "key"}

\* How the two requests of tryFetchRemoteDefinition may end: the first
\* request is rejected; it answers without a definition; the second request
\* is rejected; it answers 200; it answers 301, 302, 403 or 502; it answers
\* with another status.
Outcomes == {"rejected1", "nodef", "rejected2", "ok", "denied", "notok"}

\* The status test resetting the slot to null instead.
TokenAfterDeniedNull(tok) == "null"

\* The status test of lines 815-816: the slot is set to the empty string.
TokenAfterDenied(tok) == ""

\* tryFetchRemoteDefinition (734-828) with the slot at tok, the prompt
\* answered by answer and the network behaving as outcome.
\*   threw: a request was rejected and nothing caught it
\*   info: "null" (returned null or nothing), "text" ({text, readme,
\*         baseName}), "notext" (the same with text: null)
tryFetchRemoteDefinition(tok, answer, outcome) ==
  LET prompted == tok = "null"
      t1 == IF prompted THEN answer ELSE tok
  IN IF t1 = ""
     THEN [threw |-> FALSE, info |-> "null", token |-> t1, prompted |-> prompted,
           requests |-> 0, how |-> "skipped"]
     ELSE CASE outcome = "rejected1" ->
                 [threw |-> TRUE, info |-> "null", token |-> t1, prompted |-> prompted,
                  requests |-> 1, how |-> "rejected"]
            [] outcome = "nodef" ->
                 [threw |-> FALSE, info |-> "null", token |-> t1, prompted |-> prompted,
                  requests |-> 1, how |-> "nodef"]
            [] outcome = "rejected2" ->
                 [threw |-> TRUE, info |-> "null", token |-> t1, prompted |-> prompted,
                  requests |-> 2, how |-> "rejected"]
            [] outcome = "ok" ->
                 [threw |-> FALSE, info |-> "text", token |-> t1, prompted |-> prompted,
                  requests |-> 2, how |-> "ok"]
            [] outcome = "denied" ->
                 [threw |-> FALSE, info |-> "notext", token |-> TokenAfterDenied(t1),
                  prompted |-> prompted, requests |-> 2, how |-> "denied"]
            [] outcome = "notok" ->
                 [threw |-> FALSE, info |-> "notext", token |-> t1, prompted |-> prompted,
                  requests |-> 2, how |-> "notok"]

\* path.basename(source.rootFile) of a definition the registry knows.
FetchedBaseName == <<"root", ".yaml">>

\* migratePageYaml for a definition behind a URL (363-400).
MigrateRemote ==
  /\ pc = "openapi" /\ jobs # <<>>
  /\ Head(jobs).definitionId \in DOMAIN oasDefinitions
  /\ LET j == Head(jobs)
         definitionPath == oasDefinitions[j.definitionId]
         dir == IF j.versioned THEN PathDirname(j.targetPath)
                ELSE PathJoin(<<PathDirname(j.targetPath),
                                PathBasename(j.targetPath, <<".yaml">>)>>)
     IN /\ Includes(definitionPath, <<"https://">>)
        /\ \E answer \in Answers, outcome \in Outcomes :
             LET r == tryFetchRemoteDefinition(token, answer, outcome)
                 newTargetPath ==
                   PathJoin(<<dir, IF r.info = "null" THEN PathBasename(definitionPath, <<>>)
                                   ELSE FetchedBaseName>>)
             IN /\ token' = r.token
                /\ prompts' = prompts + (IF r.prompted THEN 1 ELSE 0)
                /\ requests' = requests + r.requests
                /\ lastCall' = r.how
                /\ IF r.threw
                   THEN /\ pc' = "crashed"
                        /\ UNCHANGED <<disk, apis, migrationInstructions, fileRbacPermissions,
                                       renamedFiles, regWrites, jobs>>
                   ELSE /\ pc' = pc
                        /\ apis' = apis \cup {j.definitionId}
                        /\ disk' = WriteFile(disk, newTargetPath,
                                             [kind |-> "oas",
                                              text |-> IF r.info = "text" THEN "fetched"
                                                       ELSE "placeholder"])
                        /\ migrationInstructions' =
                             IF r.info = "null" THEN migrationInstructions
                             ELSE migrationInstructions \cup {"registry"}
                        /\ fileRbacPermissions' =
                             WithPermission(fileRbacPermissions, newTargetPath, j.permission)
                        /\ renamedFiles' = Record(renamedFiles, curFile, newTargetPath)
                        /\ regWrites' = Counted(regWrites, curFile)
                        /\ jobs' = Tail(jobs)
  /\ UNCHANGED <<pass, disk0, fsInfo, queue, curFile, consumers, partialFolders, ignore,
                 done, written>>

\* The variables migrateOpenAPI owns.
UnchangedOpenapi ==
  UNCHANGED <<curFile, jobs, token, prompts, requests, lastCall, apis>>

(***************************************************************************)
(* migrateMdx (lines 552-624).                                             *)
(***************************************************************************)

\* content.match(/^#+\s*\w/m) (line 575): a heading at the start of a line.
detectMdxType(body) ==
  IF \E i \in 1..Len(body), h \in 1..Len(body), w \in 1..Len(body) :
       /\ i <= h /\ h <= w /\ w < Len(body)
       /\ (i = 1 \/ body[i - 1] = "\n")
       /\ \A k \in i..h : body[k] = "#"
       /\ \A k \in (h + 1)..w : IsSpace(body[k])
       /\ IsWord(body[w + 1])
  THEN "md" ELSE "tsx"

\* The comment convertMdxToMd puts before the text (line 618).
Banner == <<"<!-- renamed from MDX -->", "\n", "\n">>

\* The file convertMdxToMd writes (610-620).
MdFromMdx(content, newFilePath) ==
  LET r == processFrontMatter(content.fm, newFilePath)
  IN Doc("md",
         IF r.frontmatter.present /\ DOMAIN r.frontmatter.map # {}
         THEN r.frontmatter ELSE NoFrontmatter,
         Banner \o content.body)

\* The file convertMdxToTsx writes (581-605): the frontmatter is exported
\* whenever processFrontMatter returned a mapping.
TsxFromMdx(content, newFilePath) ==
  Doc("tsx", processFrontMatter(content.fm, newFilePath).frontmatter, content.body)

\* One turn of the loop of lines 561-572.
MigrateMdxFile ==
  /\ pc = "mdx" /\ queue # <<>>
  /\ LET filePath == Head(queue)
         content == disk[Key(filePath)]
         type == detectMdxType(content.body)
         newFilePath == ReplaceSuffix(filePath, <<".mdx">>,
                                      IF type = "md" THEN <<".md">> ELSE <<".page.tsx">>)
         r == processFrontMatter(content.fm, newFilePath)
         new == IF type = "md" THEN MdFromMdx(content, newFilePath)
                ELSE TsxFromMdx(content, newFilePath)
     IN /\ disk' = Unlink(WriteFile(disk, newFilePath, new), filePath)
        /\ renamedFiles' = Record(renamedFiles, filePath, newFilePath)
        /\ regWrites' = Counted(regWrites, filePath)
        /\ fileRbacPermissions' =
             IF r.perm # <<>> THEN (newFilePath :> r.perm) @@ fileRbacPermissions
             ELSE fileRbacPermissions
        /\ ignore' = IF r.excluded THEN Append(ignore, newFilePath) ELSE ignore
        /\ done' = done \cup {<<pass, filePath>>}
  /\ migrationInstructions' = migrationInstructions \cup {"mdx"}
  /\ queue' = Tail(queue)
  /\ UnchangedOpenapi
  /\ UNCHANGED <<pc, pass, disk0, fsInfo, consumers, partialFolders, written>>

(***************************************************************************)
(* migrateMarkdown (lines 87-163).                                         *)
(***************************************************************************)

\* One turn of the loop of lines 94-162.
MigrateMarkdownFile ==
  /\ pc = "markdown" /\ queue # <<>>
  /\ LET filePath == Head(queue)
         content == disk[Key(filePath)]
         newContent == MarkdownRewrite(content, filePath, renamedFiles)
         r == processFrontMatter(content.fm, filePath)
     IN /\ partialFolders' = partialFolders \cup EmbedFolders(content, filePath)
        /\ fileRbacPermissions' =
             IF r.perm # <<>> THEN (filePath :> r.perm) @@ fileRbacPermissions
             ELSE fileRbacPermissions
        /\ ignore' = IF r.excluded THEN Append(ignore, filePath) ELSE ignore
        /\ IF newContent # content
           THEN /\ disk' = WriteFile(disk, filePath, newContent)
                /\ written' = written \cup {<<pass, filePath>>}
           ELSE UNCHANGED <<disk, written>>
        /\ done' = done \cup {<<pass, filePath>>}
  /\ consumers' = consumers \cup {"markdown"}
  /\ queue' = Tail(queue)
  /\ UnchangedOpenapi
  /\ UNCHANGED <<pc, pass, disk0, fsInfo, renamedFiles, regWrites, migrationInstructions>>

(***************************************************************************)
(* migrateSidebars (lines 165-251).                                        *)
(***************************************************************************)

\* The name of the file the tree at position idx of a keyed mapping goes to
\* (lines 187-188).
SidebarsName(key, idx) ==
  (IF idx = 1 THEN <<>> ELSE slug(key) \o <<".">>) \o <<"sidebars", ".yaml">>

\* The file the tree at position idx goes to: filePath for an array (182),
\* the name of lines 187-188 beside filePath for a keyed mapping (190).
SidebarsTarget(shape, entries, idx, filePath) ==
  IF shape = "array" THEN filePath
  ELSE PathJoin(<<PathDirname(filePath), SidebarsName(entries[idx].key, idx)>>)

\* The positions whose callback ran to its end: those before the first tree
\* that raises.
SidebarsDone(entries, filePath, reg) ==
  {i \in 1..Len(entries) :
     \A j \in 1..i : ~transformSidebarItems(entries[j].items, filePath, reg).threw}

\* Lines 181 and 189 without the dequal test: every tree whose callback ran
\* to its end counts as changed.
SidebarsChangedAlways(entries, filePath, reg) == SidebarsDone(entries, filePath, reg)

\* The positions whose tree dequal finds changed (lines 181, 189).
SidebarsChanged(entries, filePath, reg) ==
  {i \in SidebarsDone(entries, filePath, reg) :
     ~dequal(entries[i].items,
             transformSidebarItems(entries[i].items, filePath, reg).items)}

\* Object.entries(data).forEach(...) (185-192), and the one tree of an array
\* (180-183).  A tree is written when dequal finds it changed, a later write
\* to the same name replaces an earlier one; a raise ends the loop and
\* leaves the files written before it.
SidebarsWrites(shape, entries, d, filePath, reg) ==
  LET ch == SidebarsChanged(entries, filePath, reg)
      at(k) == {i \in ch : Key(SidebarsTarget(shape, entries, i, filePath)) = k}
      keys == {Key(SidebarsTarget(shape, entries, i, filePath)) : i \in ch}
  IN [threw |-> SidebarsDone(entries, filePath, reg) # 1..Len(entries),
      wrote |-> {SidebarsTarget(shape, entries, i, filePath) : i \in ch},
      disk |-> [k \in DOMAIN d \cup keys |->
                  IF at(k) = {} THEN d[k]
                  ELSE Tree(Dump(transformSidebarItems(
                         entries[CHOOSE i \in at(k) : \A j \in at(k) : j <= i].items, filePath, reg).items))]]

\* One turn of the loop of lines 172-194.  A file that does not hold a
\* sequence or a mapping makes the function return (line 176).
MigrateSidebarsFile ==
  /\ pc = "sidebars" /\ queue # <<>>
  /\ LET filePath == Head(queue)
         data == disk[Key(filePath)]
         r == SidebarsWrites(data.shape, data.entries, disk, filePath, renamedFiles)
     IN /\ done' = done \cup {<<pass, filePath>>}
        /\ IF data.shape = "scalar"
           THEN /\ queue' = <<>>
                /\ UNCHANGED <<pc, disk, written, consumers>>
           ELSE /\ disk' = r.disk
                /\ written' = written \cup {<<pass, w>> : w \in r.wrote}
                /\ consumers' = consumers \cup {"sidebars"}
                /\ pc' = IF r.threw THEN "crashed" ELSE pc
                /\ queue' = Tail(queue)
  /\ UnchangedOpenapi
  /\ UNCHANGED <<pass, disk0, fsInfo, renamedFiles, regWrites, fileRbacPermissions,
                 partialFolders, ignore, migrationInstructions>>

(***************************************************************************)
(* migrate (lines 48-78): the phases in turn.                              *)
(***************************************************************************)

LoopPhases == {"openapi", "mdx", "markdown", "sidebars"}

\* The loop of a phase has no file left: the next statement of migrate().
Advance ==
  /\ pc \in LoopPhases /\ queue = <<>> /\ jobs = <<>>
  /\ pc' = PhaseAfter(pc)
  /\ queue' = PhaseList(PhaseAfter(pc), fsInfo)
  /\ UNCHANGED <<pass, disk, disk0, fsInfo, curFile, jobs, renamedFiles, regWrites, consumers,
                 token, prompts, requests, lastCall, fileRbacPermissions, partialFolders,
                 ignore, apis, migrationInstructions, done, written>>

\* fsInfo = getFsInfo('.') (line 62)
Rescan ==
  /\ pc = "rescan"
  /\ fsInfo' = getFsInfo(disk)
  /\ pc' = PhaseAfter(pc)
  /\ queue' = PhaseList(PhaseAfter(pc), getFsInfo(disk))
  /\ UNCHANGED <<pass, disk, disk0, curFile, jobs, renamedFiles, regWrites, consumers, token,
                 prompts, requests, lastCall, fileRbacPermissions, partialFolders, ignore,
                 apis, migrationInstructions, done, written>>

\* migrateConfig (442-550): redocly.yaml replaces siteConfig.yaml.
migrateConfig ==
  /\ pc = "config"
  /\ disk' = Unlink(WriteFile(disk, <<"redocly", ".yaml">>,
                              [kind |-> "redocly", apis |-> apis, ignore |-> ignore,
                               partialsFolders |-> partialFolders]),
                    SiteConfig)
  /\ pc' = PhaseAfter(pc)
  /\ UNCHANGED <<pass, disk0, fsInfo, queue, curFile, jobs, renamedFiles, regWrites, consumers,
                 token, prompts, requests, lastCall, fileRbacPermissions, partialFolders,
                 ignore, apis, migrationInstructions, done, written>>

\* migrateOverrides (626-631): a note when the tree has an _overrides folder.
migrateOverrides ==
  /\ pc = "overrides"
  /\ migrationInstructions' =
       IF \E k \in DOMAIN disk : StartsWith(k, <<"_overrides">>)
       THEN migrationInstructions \cup {"overrides"} ELSE migrationInstructions
  /\ pc' = PhaseAfter(pc)
  /\ UNCHANGED <<pass, disk, disk0, fsInfo, queue, curFile, jobs, renamedFiles, regWrites,
                 consumers, token, prompts, requests, lastCall, fileRbacPermissions,
                 partialFolders, ignore, apis, done, written>>

\* migrateTheme (430-435)
migrateTheme ==
  /\ pc = "theme"
  /\ migrationInstructions' = migrationInstructions \cup {"theme"}
  /\ pc' = PhaseAfter(pc)
  /\ UNCHANGED <<pass, disk, disk0, fsInfo, queue, curFile, jobs, renamedFiles, regWrites,
                 consumers, token, prompts, requests, lastCall, fileRbacPermissions,
                 partialFolders, ignore, apis, done, written>>

\* runNpmInstall (80-85): the lock files go.
runNpmInstall ==
  /\ pc = "npm"
  /\ disk' = Unlink(Unlink(disk, <<"yarn", ".lock">>), <<"package-lock", ".json">>)
  /\ pc' = PhaseAfter(pc)
  /\ UNCHANGED <<pass, disk0, fsInfo, queue, curFile, jobs, renamedFiles, regWrites, consumers,
                 token, prompts, requests, lastCall, fileRbacPermissions, partialFolders,
                 ignore, apis, migrationInstructions, done, written>>

\* Lines 71-77: the report file, when an instruction was recorded.
WriteReport ==
  /\ pc = "report"
  /\ disk' = IF migrationInstructions # {}
             THEN WriteFile(disk, <<"_MIGRATION", ".md">>,
                            [kind |-> "report", sections |-> migrationInstructions])
             ELSE disk
  /\ pc' = PhaseAfter(pc)
  /\ UNCHANGED <<pass, disk0, fsInfo, queue, curFile, jobs, renamedFiles, regWrites, consumers,
                 token, prompts, requests, lastCall, fileRbacPermissions, partialFolders,
                 ignore, apis, migrationInstructions, done, written>>

Next ==
  \/ OpenPageYaml
  \/ MigrateUnknown
  \/ MigrateLocal
  \/ MigrateRemote
  \/ MigrateMdxFile
  \/ MigrateMarkdownFile
  \/ MigrateSidebarsFile
  \/ Advance
  \/ Rescan
  \/ migrateConfig
  \/ migrateOverrides
  \/ migrateTheme
  \/ runNpmInstall
  \/ WriteReport

Spec == Init /\ [][Next]_vars

(***************************************************************************)
(* The consuming passes run a second time on what the first run left.      *)
(***************************************************************************)

\* migrateMarkdown and migrateSidebars are started again, over a new
\* listing, once they have both returned.
RunAgain ==
  /\ pc = "config" /\ pass = 1
  /\ pass' = 2
  /\ fsInfo' = getFsInfo(disk)
  /\ pc' = "markdown"
  /\ queue' = PhaseList("markdown", getFsInfo(disk))
  /\ UNCHANGED <<disk, disk0, curFile, jobs, renamedFiles, regWrites, consumers, token,
                 prompts, requests, lastCall, fileRbacPermissions, partialFolders, ignore,
                 apis, migrationInstructions, done, written>>

NextTwice == Next \/ RunAgain

SpecTwice == Init /\ [][NextTwice]_vars

(***************************************************************************)
(* The properties.                                                         *)
(***************************************************************************)

\* C1: every assignment to renamedFiles is made while migrate() is in
\* migrateOpenAPI or migrateMdx, and from the first file migrateMarkdown or
\* migrateSidebars has handled on, no step changes renamedFiles.
C1_RegistryFrozen ==
  [][/\ renamedFiles' # renamedFiles => pc \in {"openapi", "mdx"} /\ consumers = {}
     /\ consumers # {} => renamedFiles' = renamedFiles]_vars

\* Both consuming passes have read a registry that both relocating passes
\* wrote to.
C1_Witness ==
  /\ consumers = {"markdown", "sidebars"}
  /\ \E k \in DOMAIN renamedFiles : EndsWith(k, <<".page.yaml">>)
  /\ \E k \in DOMAIN renamedFiles : EndsWith(k, <<".mdx">>)

\* C2: a key of renamedFiles is assigned at most once in a run.
C2_WrittenOnce == \A k \in DOMAIN regWrites : regWrites[k] <= 1

\* The path of a link destination: what comes before its first "#".
LinkPath(link) == Split(link, "#")[1]

\* The anchor fragment of a link destination: everything after the path.
LinkAnchor(link) == From(link, Len(LinkPath(link)) + 1)

\* The markdown files of the starting tree that migrateMarkdown has handled.
RewrittenDocs ==
  {f \in {p[2] : p \in {q \in done : q[1] = 1}} :
     Key(f) \in DOMAIN disk0 /\ disk0[Key(f)].kind = "md"}

\* C3: in every markdown file migrateMarkdown has handled, each inline link
\* whose path is a key of renamedFiles now points to the entry's target,
\* relative to the folder of the file, followed by the anchor the link had.
C3_LinkRewritten ==
  \A f \in RewrittenDocs :
    LET before == LinkDests(disk0[Key(f)].body)
        after == LinkDests(disk[Key(f)].body)
    IN /\ Len(after) = Len(before)
       /\ \A i \in 1..Len(before) :
            RelativeLink(LinkPath(before[i]), f) \in DOMAIN renamedFiles =>
              after[i] = PathRelative(PathDirname(f),
                                      renamedFiles[RelativeLink(LinkPath(before[i]), f)])
                         \o LinkAnchor(before[i])

\* The nodes of the tree out reference what the registry holds for the page
\* of the node of orig they come from; a node's pages are its items in out.
RECURSIVE PagesResolved(_, _, _, _)
PagesResolved(orig, out, f, reg) ==
  /\ Len(out) = Len(orig)
  /\ \A i \in 1..Len(orig) :
       /\ (orig[i]["page"].st = "set" /\ SidebarTarget(orig[i]["page"].v, f) \in DOMAIN reg) =>
            out[i]["page"] =
              Value(PathRelative(PathDirname(f), reg[SidebarTarget(orig[i]["page"].v, f)]))
       /\ orig[i]["pages"].st = "set" =>
            /\ out[i]["items"].st = "set"
            /\ PagesResolved(orig[i]["pages"].v, out[i]["items"].v, f, reg)

\* The sidebars files of the starting tree that hold one sequence of nodes
\* and that migrateSidebars has handled.
TransformedTrees ==
  {f \in {p[2] : p \in {q \in done : q[1] = 1}} :
     /\ Key(f) \in DOMAIN disk0
     /\ disk0[Key(f)].kind = "sidebars"
     /\ disk0[Key(f)].shape = "array"}

\* C4: once migrateSidebars has handled a sidebars file without raising,
\* every node of it, at any depth, whose page was a key of renamedFiles
\* references the entry's target relative to the folder of the file, the
\* nodes that carry pages included.
C4_PagesResolved ==
  pc # "crashed" =>
    \A f \in TransformedTrees :
      PagesResolved(disk0[Key(f)].entries[1].items, disk[Key(f)].entries[1].items,
                    f, renamedFiles)

\* The sidebars files of the starting tree that hold a keyed mapping of
\* named trees and that migrateSidebars has handled.
SplitFiles ==
  {f \in {p[2] : p \in {q \in done : q[1] = 1}} :
     /\ Key(f) \in DOMAIN disk0
     /\ disk0[Key(f)].kind = "sidebars"
     /\ disk0[Key(f)].shape = "mapping"}

\* C5: once migrateSidebars has handled a file of N named trees without
\* raising, the file of each name exists (the original name for the first,
\* <slug(name)>.sidebars.yaml beside it for the others) and holds one
\* sequence of nodes.
C5_AllTreesSplit ==
  pc # "crashed" =>
    \A f \in SplitFiles :
      \A idx \in 1..Len(disk0[Key(f)].entries) :
        LET out == Key(SidebarsTarget("mapping", disk0[Key(f)].entries, idx, f))
        IN out \in DOMAIN disk /\ disk[out].kind = "sidebars" /\ disk[out].shape = "array"

\* C6: when migrateMarkdown and migrateSidebars run a second time, over the
\* files their first run left, they write no file.
C6_SecondPassWritesNothing == \A w \in written : w[1] = 1

\* A node of the tree, at any depth, names a .page.yaml file, with or
\* without the wildcard, that the registry has no entry for.
RECURSIVE NamesMissing(_, _, _)
NamesMissing(items, f, reg) ==
  \E i \in 1..Len(items) :
    \/ /\ items[i]["page"].st = "set"
       /\ \/ EndsWith(items[i]["page"].v, <<".page.yaml">>)
          \/ EndsWith(items[i]["page"].v, <<".page.yaml", "/", "*">>)
       /\ SidebarTarget(ReplaceFirst(items[i]["page"].v, <<"/", "*">>, <<>>), f)
            \notin DOMAIN reg
    \/ /\ items[i]["pages"].st = "set"
       /\ NamesMissing(items[i]["pages"].v, f, reg)

\* The sidebars files of the starting tree that migrateSidebars has handled
\* and that name a .page.yaml file without a registry entry.
UnresolvedTrees ==
  {f \in {p[2] : p \in {q \in done : q[1] = 1}} :
     /\ Key(f) \in DOMAIN disk0
     /\ disk0[Key(f)].kind = "sidebars"
     /\ \E e \in 1..Len(disk0[Key(f)].entries) :
          NamesMissing(disk0[Key(f)].entries[e].items, f, renamedFiles)}

\* C7: once migrateSidebars has handled a file that names a .page.yaml file
\* without a registry entry, the run has stopped there: the file is as it
\* was, it was not written, and no later phase has run.
C7_MissingEntryStops ==
  \A f \in UnresolvedTrees :
    /\ pc = "crashed"
    /\ disk[Key(f)] = disk0[Key(f)]
    /\ <<1, f>> \notin written
    /\ <<"redocly", ".yaml">> \notin DOMAIN disk

\* C8: a request of tryFetchRemoteDefinition that is rejected does not stop
\* the run: migrate() is still in one of its phases afterwards.
C8_RejectedFetchContinues == lastCall = "rejected" => pc # "crashed"

\* The next step of the run is a call of tryFetchRemoteDefinition.
CallsFetch ==
  /\ pc = "openapi" /\ jobs # <<>>
  /\ Head(jobs).definitionId \in DOMAIN oasDefinitions
  /\ Includes(oasDefinitions[Head(jobs).definitionId], <<"https://">>)

\* C9: the credential is asked for at most once, the slot is null exactly
\* until it has been asked for and never null again, and once the slot is
\* the empty string it stays so: every later call asks nothing, sends no
\* request and returns null, so that the placeholder definition is written.
C9_PromptOnce ==
  /\ [](prompts <= 1 /\ (token = "null" <=> prompts = 0))
  /\ [][/\ token # "null" => token' # "null"
        /\ token = "" => token' = "" /\ prompts' = prompts /\ requests' = requests
        /\ (token = "" /\ CallsFetch) =>
             /\ lastCall' = "skipped"
             /\ pc' = pc
             /\ disk'[Key(renamedFiles'[PathNormalize(curFile)])].text = "placeholder"]_vars

\* The credential was asked for once, a request was answered 301, 302, 403
\* or 502, and a later call has skipped the download.
C9_Witness ==
  /\ prompts = 1 /\ token = "" /\ requests > 0
  /\ lastCall = "skipped"
  /\ Cardinality(DOMAIN renamedFiles) + Cardinality({k \in DOMAIN regWrites : regWrites[k] > 1}) >= 2

\* The frontmatter of the document holds the key permission and no other.
OnlyPermission(doc) == doc.fm.present /\ DOMAIN doc.fm.map = {"permission"}

\* The file a document of the starting tree has become: the file itself for
\* a markdown file, the file the registry names for a converted one.
FinalFile(f) ==
  IF disk0[Key(f)].kind = "mdx" THEN Key(renamedFiles[PathNormalize(f)]) ELSE Key(f)

\* The .md and .mdx files of the starting tree that migrateMarkdown or
\* migrateMdx has handled.
ProcessedDocs ==
  {f \in {p[2] : p \in {q \in done : q[1] = 1}} :
     Key(f) \in DOMAIN disk0 /\ disk0[Key(f)].kind \in {"md", "mdx"}}

\* C10: a document whose only frontmatter key was permission is left, by
\* migrateMarkdown as by migrateMdx, without any frontmatter block.
C10_EmptyFrontmatterDropped ==
  \A f \in ProcessedDocs :
    OnlyPermission(disk0[Key(f)]) => ~disk[FinalFile(f)].fm.present

\* The frontmatter of the document declares a permission.
DeclaresPermission(doc) == doc.fm.present /\ Truthy(doc.fm.map, "permission")

\* The path a document of the starting tree is at after the run, as the
\* script spells it: the listed path of a markdown file, the new path
\* migrateMdx wrote a converted file to.
FinalPath(f) ==
  IF disk0[Key(f)].kind = "mdx" THEN renamedFiles[PathNormalize(f)] ELSE f

\* C11: for every document migrateMarkdown or migrateMdx has handled whose
\* frontmatter declared a permission, fileRbacPermissions holds that value
\* under the path the document is at after the run (the new .md or
\* .page.tsx path of a converted .mdx file, and nothing under the .mdx
\* path), and the frontmatter of the file at that path has no permission
\* key.
C11_PermissionUnderFinalPath ==
  \A f \in ProcessedDocs :
    DeclaresPermission(disk0[Key(f)]) =>
      /\ FinalPath(f) \in DOMAIN fileRbacPermissions
      /\ fileRbacPermissions[FinalPath(f)] = disk0[Key(f)].fm.map["permission"]
      /\ disk0[Key(f)].kind = "mdx" =>
            /\ f \notin DOMAIN fileRbacPermissions
            /\ PathNormalize(f) \notin DOMAIN fileRbacPermissions
            /\ Key(f) \notin DOMAIN disk
      /\ Key(FinalPath(f)) \in DOMAIN disk
      /\ "permission" \notin DOMAIN disk[Key(FinalPath(f))].fm.map

\* The run has ended after a converted .mdx file and a markdown file that
\* both declared a permission were handled, and both values are recorded.
C11_Witness ==
  /\ pc = "done"
  /\ \E f \in ProcessedDocs, g \in ProcessedDocs :
       /\ disk0[Key(f)].kind = "mdx" /\ DeclaresPermission(disk0[Key(f)])
       /\ disk0[Key(g)].kind = "md" /\ DeclaresPermission(disk0[Key(g)])
       /\ {FinalPath(f), FinalPath(g)} \subseteq DOMAIN fileRbacPermissions
       /\ Cardinality(DOMAIN fileRbacPermissions) >= 2

\* The folder of an embed source, relative to the root of the tree: the
\* folder of a source written from the root without its leading "/", the
\* folder of any other source resolved against the folder of the document.
RootRelativeFolder(src, f) ==
  IF StartsWith(src, <<"/">>)
  THEN PathDirname(From(src, 2))
  ELSE PathRelative(<<".">>, PathDirname(PathResolve(PathDirname(f), src)))

\* The root-relative folders of the embeds of the markdown files that
\* migrateMarkdown has handled.
EmbeddedFolders ==
  UNION {{RootRelativeFolder(EmbedSrcs(disk0[Key(f)].body)[i], f) :
            i \in 1..Len(EmbedSrcs(disk0[Key(f)].body))} : f \in RewrittenDocs}

\* C12: partialFolders holds root-relative paths only, one for each embed of
\* the files handled: the folder of a source written from the root without
\* the leading "/", and the folder of a source relative to the document
\* resolved against the folder of the document and taken relative to the
\* root.
C12_PartialFoldersRootRelative ==
  /\ \A p \in partialFolders : ~IsAbsolute(p)
  /\ partialFolders = EmbeddedFolders

\* The content of the file at key k of the tree d, NoFile when there is none.
FileAt(d, k) == IF k \in DOMAIN d THEN d[k] ELSE NoFile

\* The tree at position i of the sidebars file f is the only one of the
\* file that goes to its target, and transformSidebarItems returns it as
\* dequal finds it.
TreeUnchanged(data, i, f) ==
  /\ \A j \in 1..Len(data.entries) :
       Key(SidebarsTarget(data.shape, data.entries, j, f))
         = Key(SidebarsTarget(data.shape, data.entries, i, f)) => j = i
  /\ dequal(data.entries[i].items,
            transformSidebarItems(data.entries[i].items, f, renamedFiles).items)

\* C13: a turn of migrateMarkdown on a file whose rewritten text is the text
\* it read writes nothing, a turn of migrateSidebars writes no file for a
\* tree that dequal finds equal to what transformSidebarItems returned, and
\* every write of the two passes leaves the file written with a content
\* other than the one it had; no file changes without such a write.
C13_UnchangedNotWritten ==
  [][(pc \in {"markdown", "sidebars"} /\ queue # <<>>) =>
       LET f == Head(queue)
           data == disk[Key(f)]
           writes == written' \ written
       IN /\ (pc = "markdown" /\ MarkdownRewrite(data, f, renamedFiles) = data) =>
               (disk' = disk /\ writes = {})
          /\ (pc = "sidebars" /\ data.shape # "scalar") =>
               \A i \in 1..Len(data.entries) :
                 TreeUnchanged(data, i, f) =>
                   LET target == SidebarsTarget(data.shape, data.entries, i, f)
                   IN /\ <<pass, target>> \notin writes
                      /\ FileAt(disk', Key(target)) = FileAt(disk, Key(target))
          /\ \A w \in writes :
               w[1] = pass /\ FileAt(disk', Key(w[2])) # FileAt(disk, Key(w[2]))
          /\ \A k \in DOMAIN disk \cup DOMAIN disk' :
               FileAt(disk', k) # FileAt(disk, k) => \E w \in writes : Key(w[2]) = k]_vars

\* The run has ended after migrateMarkdown left a markdown file unwritten,
\* migrateSidebars left a sidebars file holding a sequence of nodes as it
\* was, and another file was written.
C13_Witness ==
  /\ pc = "done"
  /\ written # {}
  /\ \E f \in {p[2] : p \in done \ written}, g \in {p[2] : p \in done \ written} :
       /\ EndsWith(f, <<".md">>) /\ Key(f) \in DOMAIN disk
       /\ EndsWith(g, <<"sidebars", ".yaml">>)
       /\ disk0[Key(g)].shape = "array"
       /\ disk[Key(g)] = disk0[Key(g)]

\* The destination with the marker "/tag/" replaced by "/" and the segment
\* that followed it, up to the next "/" or "#", in lower case; the rest of
\* the destination as it was written.
TagSegmentLowered(link) ==
  LET k == IndexOfSub(link, <<"/", "tag", "/">>)
      rest == From(link, k + 3)
      ends == {i \in 1..Len(rest) : rest[i] \in {"/", "#"}}
      n == IF ends = {} THEN Len(rest) ELSE (CHOOSE i \in ends : \A j \in ends : i <= j) - 1
  IN SubSeq(link, 1, k - 1) \o <<"/">> \o ToLowerCase(SubSeq(rest, 1, n)) \o From(rest, n + 1)

\* C14: in every markdown file migrateMarkdown has handled, a link whose
\* path is no key of renamedFiles and that passes the isRefLink test has
\* lost the marker "/tag/" and has the segment after it in lower case, every
\* other part of the destination being as it was written; a link that is
\* no key and does not pass the test is as it was written.
C14_OnlyTagSegmentChanged ==
  \A f \in RewrittenDocs :
    LET before == LinkDests(disk0[Key(f)].body)
        after == LinkDests(disk[Key(f)].body)
    IN /\ Len(after) = Len(before)
       /\ \A i \in 1..Len(before) :
            RelativeLink(LinkPath(before[i]), f) \notin DOMAIN renamedFiles =>
              after[i] = IF IsRefLink(before[i], renamedFiles)
                         THEN TagSegmentLowered(before[i])
                         ELSE before[i]

\* The .page.yaml files of the starting tree that are no longer in the tree.
RemovedPageYamls ==
  {k \in DOMAIN disk0 : disk0[k].kind = "pageyaml" /\ k \notin DOMAIN disk}

\* C15: once migrateOpenAPI has returned, every .page.yaml file it removed
\* has an entry in renamedFiles under its normalized path, the files without
\* a definitionId and the files whose definitionId oasDefinitions does not
\* hold included.
C15_RemovedHasEntry ==
  pc \in {Phases[i] : i \in 2..Len(Phases)} =>
    \A k \in RemovedPageYamls : k \in DOMAIN renamedFiles

====
